---- MODULE Spec2Model ----
(***************************************************************************)
(* Model of the recording controller of Music-Transcriber:                 *)
(*   src/src/components/Controls/RecordButton.tsx  (RecordButton)          *)
(*   src/public/audioprocessor.js                  (AudioProcessor)        *)
(* One action per handler: the button's onClick, the effect cleanup, the   *)
(* socket's onopen / onmessage / onclose, the continuations of the two     *)
(* awaits inside onopen, the worklet's process() and the worklet port's    *)
(* onmessage.  Sockets are numbered in creation order; the audio context   *)
(* created by the onopen handler of socket s carries the number s.         *)
(* process() and JSON.parse are modelled a second time on the data they    *)
(* handle (sample buffers, message text): SpecProducer and SpecDecoder.    *)
(***************************************************************************)
EXTENDS Integers, Sequences, FiniteSets

\* ---- bounds of the model ----
MaxSockets == 2          \* startStreaming calls in one run
MaxFrames == 2           \* frames emitted by all producers in one run
MaxMsgs == 2             \* inbound messages in one run
MaxInboundSockets == 1   \* startStreaming calls in one run of SpecInbound
Quantum == 2             \* samples of one render quantum
MaxBlocks == 2           \* frames posted in one run of SpecProducer

Null == 0                \* useRef(null)
Sockets == 1..MaxSockets
ErrorTexts == {"Audio setup failed:", "JSON Parse Error"}

\* ---- inbound payloads (event.data of socket.onmessage) ----
Tags == {"note_on", "note_off", "re_trigger", "volume", "silence_reset"}
\* kind "garbage": not JSON; "null": the JSON text null; "object": a JSON object.
\* type "absent": no type field; "foo": a tag outside the union. note: the
\* object has a non-empty note field. The payloads enumerated take every
\* path of socket.onmessage and handleServerEvent: in handleServerEvent
\* re_trigger, which has no case, acts as "foo" does, and silence_reset, which
\* logs unconditionally, as note_off does.
InputTypes == {"note_on", "note_off", "volume", "foo", "absent"}
Payloads ==
    { [kind |-> "garbage", type |-> "absent", note |-> FALSE],
      [kind |-> "null", type |-> "absent", note |-> FALSE],
      [kind |-> "object", type |-> "note_on", note |-> FALSE] }
    \cup { [kind |-> "object", type |-> t, note |-> TRUE] : t \in InputTypes }

VARIABLES
    mounted,          \* the component is mounted
    isRecording,      \* useState(false)
    socketRef,        \* socketRef.current
    audioContextRef,  \* audioContextRef.current
    nSockets,         \* WebSocket objects constructed so far
    readyState,       \* readyState of each WebSocket
    pc,               \* position of each socket's async onopen handler
    ctxState,         \* state of the AudioContext created by each onopen
    installed,        \* the worklet node of the context is wired and connected
    emitted,          \* frames posted so far by each context's AudioProcessor
    port,             \* frames posted to each worklet port, not yet delivered
    wire,             \* messages transmitted, in transmission order
    dropped,          \* frames whose hand-off transmitted nothing
    sendErrors,       \* exceptions raised by send()
    received,         \* inbound messages, in arrival order
    handled,          \* arguments of handleServerEvent, in call order
    consoleErr,       \* console.error calls made so far, per message text
    consoleLog,       \* console.log calls of handleServerEvent, in order
    lastRequest,      \* the last user request: "none", "stop", "start" (made
                      \* while no connection was alive) or "startBusy"
    stopStreak,       \* stopAudio calls made by the last consecutive requests
    heap,             \* samples of each Float32Array buffer of the worklet scope
    posted,           \* buffers handed to port.postMessage by process, in order
    expected,         \* what each posted buffer held when it was posted, or
                      \* was later overwritten with by its receiver
    lastInput,        \* the inputs argument of the last process call
    procRet,          \* the value the last process call returned
    lastOp,           \* the last step of the worklet scope
    rxText,           \* event.data of an inbound message, field by field
    delivered         \* the arguments handleServerEvent was called with for it

vars == <<mounted, isRecording, socketRef, audioContextRef, nSockets,
          readyState, pc, ctxState, installed, emitted, port, wire, dropped,
          sendErrors, received, handled, consoleErr, consoleLog, lastRequest,
          stopStreak, heap, posted, expected, lastInput, procRet, lastOp,
          rxText, delivered>>

sessionVars == <<mounted, isRecording, socketRef, audioContextRef, nSockets,
                 readyState, pc, ctxState, installed>>
frameVars == <<emitted, port, wire, dropped, sendErrors>>
inboundVars == <<received, handled, consoleErr, consoleLog>>
producerVars == <<heap, posted, expected, lastInput, procRet, lastOp>>
decoderVars == <<rxText, delivered>>
detailVars == <<producerVars, decoderVars>>

\* ---- buffers of the worklet scope ----
Samples == {0, 1}
Blocks == [1..Quantum -> Samples]
EngineBuffer == 0        \* inputs[0][0], owned and reused by the rendering engine
Buffers == 0..MaxBlocks  \* the engine's buffer and the arrays process allocates
\* inputs[0] is undefined, has no channel, or has the engine's channel 0.
InputKinds == {"undefined", "empty", "channel0"}

\* ---- the text of an inbound message ----
\* A JSON object is given by the literal of each field, character by
\* character: <<>> for a field the object does not have, a number literal
\* such as 0.42, or a string literal, whose body is kept in one piece.
Fields == {"type", "note", "midi", "value", "duration", "start_time"}
Quote == "\""
StringLiteral(body) == <<Quote, body, Quote>>
NoField == <<>>
\* The literals the payloads are built from: per field, one literal.
FieldLiteral ==
    [f \in Fields \ {"type"} |->
        IF f = "note" THEN StringLiteral("A4")
        ELSE IF f = "midi" THEN <<"6", "9">>
        ELSE IF f = "value" THEN <<"0", ".", "4", "2">>
        ELSE IF f = "duration" THEN <<"0", ".", "3">>
        ELSE <<"1", "2", ".", "5">>]
\* Every object with a type of the union and any subset of the other fields.
Texts ==
    { [f \in Fields |-> IF f = "type" THEN StringLiteral(tag)
                        ELSE IF f \in present THEN FieldLiteral[f]
                        ELSE NoField] :
        tag \in Tags, present \in SUBSET (Fields \ {"type"}) }
EmptyText == [f \in Fields |-> NoField]

InitController ==
    /\ mounted = TRUE
    /\ isRecording = FALSE
    /\ socketRef = Null
    /\ audioContextRef = Null
    /\ nSockets = 0
    /\ readyState = [s \in Sockets |-> "NONE"]
    /\ pc = [s \in Sockets |-> "idle"]
    /\ ctxState = [s \in Sockets |-> "none"]
    /\ installed = [s \in Sockets |-> FALSE]
    /\ emitted = [s \in Sockets |-> 0]
    /\ port = [s \in Sockets |-> <<>>]
    /\ wire = <<>>
    /\ dropped = {}
    /\ sendErrors = 0
    /\ received = <<>>
    /\ handled = <<>>
    /\ consoleErr = [m \in ErrorTexts |-> 0]
    /\ consoleLog = <<>>
    /\ lastRequest = "none"
    /\ stopStreak = 0

\* The worklet scope before the first process call, the engine's buffer
\* holding block b.
InitWorklet(b) ==
    /\ heap = [x \in Buffers |-> IF x = EngineBuffer THEN b ELSE <<>>]
    /\ posted = <<>>
    /\ expected = <<>>
    /\ lastInput = "none"
    /\ procRet = "none"
    /\ lastOp = "none"

\* A message with text x has arrived and socket.onmessage has not run yet.
InitMessage(x) ==
    /\ rxText = x
    /\ delivered = <<>>

Init ==
    /\ InitController
    /\ InitWorklet([k \in 1..Quantum |-> 0])
    /\ InitMessage(EmptyText)

\* ---- platform objects ----
\* WebSocket.close(): starts the closing handshake of a socket that is still
\* connecting or open, and does nothing on one that is closing or closed.
WsClose(rs) == IF rs \in {"CONNECTING", "OPEN"} THEN "CLOSING" ELSE rs

\* AudioContext.close(): the context stops rendering asynchronously.
CtxClose(cs) == IF cs = "running" THEN "closing" ELSE cs

\* setIsRecording(v): a state update of an unmounted component is ignored.
setIsRecording(v) == mounted /\ v

\* ---- stopAudio ----
\* The part of the state stopAudio reads and writes; closes counts the close()
\* calls it makes.
Cur == [ctxRef |-> audioContextRef, sockRef |-> socketRef,
        rec |-> isRecording, ctx |-> ctxState, rs |-> readyState,
        closes |-> 0]

stopAudioKeepsCtxRef(st) ==
    [ctxRef |-> st.ctxRef,
     sockRef |-> Null,
     rec |-> FALSE,
     ctx |-> IF st.ctxRef # Null
             THEN [st.ctx EXCEPT ![st.ctxRef] = CtxClose(@)] ELSE st.ctx,
     rs |-> IF st.sockRef # Null
            THEN [st.rs EXCEPT ![st.sockRef] = WsClose(@)] ELSE st.rs,
     closes |-> st.closes + (IF st.ctxRef # Null THEN 1 ELSE 0)
                          + (IF st.sockRef # Null THEN 1 ELSE 0)]

stopAudio(st) ==
    [ctxRef |-> Null,
     sockRef |-> Null,
     rec |-> FALSE,
     ctx |-> IF st.ctxRef # Null
             THEN [st.ctx EXCEPT ![st.ctxRef] = CtxClose(@)] ELSE st.ctx,
     rs |-> IF st.sockRef # Null
            THEN [st.rs EXCEPT ![st.sockRef] = WsClose(@)] ELSE st.rs,
     closes |-> st.closes + (IF st.ctxRef # Null THEN 1 ELSE 0)
                          + (IF st.sockRef # Null THEN 1 ELSE 0)]

\* The state after stopAudio has run on st.
ApplyStop(st) ==
    LET r == stopAudio(st) IN
    /\ audioContextRef' = r.ctxRef
    /\ socketRef' = r.sockRef
    /\ isRecording' = r.rec
    /\ ctxState' = r.ctx
    /\ readyState' = r.rs

\* ---- the button ----
\* onClick while the button shows 'Record Audio': startStreaming.
startStreamingAcquiresFirst(limit) ==
    /\ mounted
    /\ ~isRecording
    /\ nSockets < limit
    /\ nSockets' = nSockets + 1
    /\ socketRef' = nSockets + 1
    /\ readyState' = [readyState EXCEPT ![nSockets + 1] = "CONNECTING"]
    /\ pc' = [pc EXCEPT ![nSockets + 1] = "getUserMedia"]
    /\ lastRequest' = IF \A s \in Sockets :
                            readyState[s] \notin {"CONNECTING", "OPEN"}
                      THEN "start" ELSE "startBusy"
    /\ stopStreak' = 0
    /\ UNCHANGED <<mounted, isRecording, audioContextRef,
                   ctxState, installed>>
    /\ UNCHANGED <<frameVars, inboundVars>>
    /\ UNCHANGED detailVars

startStreaming(limit) ==
    /\ mounted
    /\ ~isRecording
    /\ nSockets < limit
    /\ nSockets' = nSockets + 1
    /\ socketRef' = nSockets + 1
    /\ readyState' = [readyState EXCEPT ![nSockets + 1] = "CONNECTING"]
    /\ lastRequest' = IF \A s \in Sockets :
                            readyState[s] \notin {"CONNECTING", "OPEN"}
                      THEN "start" ELSE "startBusy"
    /\ stopStreak' = 0
    /\ UNCHANGED <<mounted, isRecording, audioContextRef, pc,
                   ctxState, installed>>
    /\ UNCHANGED <<frameVars, inboundVars>>
    /\ UNCHANGED detailVars

\* onClick while the button shows 'Stop Recording': stopAudio.
StopClick ==
    /\ mounted
    /\ isRecording
    /\ ApplyStop(Cur)
    /\ lastRequest' = "stop"
    /\ stopStreak' = IF stopStreak < 2 THEN stopStreak + 1 ELSE 2
    /\ UNCHANGED <<mounted, nSockets, pc, installed>>
    /\ UNCHANGED <<frameVars, inboundVars>>
    /\ UNCHANGED detailVars

\* The cleanup of useEffect: stopAudio on unmount.
Unmount ==
    /\ mounted
    /\ mounted' = FALSE
    /\ ApplyStop(Cur)
    /\ lastRequest' = "stop"
    /\ stopStreak' = IF stopStreak < 2 THEN stopStreak + 1 ELSE 2
    /\ UNCHANGED <<nSockets, pc, installed>>
    /\ UNCHANGED <<frameVars, inboundVars>>
    /\ UNCHANGED detailVars

\* ---- socket callbacks ----
\* The connection opens: onopen runs up to its first await (getUserMedia).
onopen(s) ==
    /\ readyState[s] = "CONNECTING"
    /\ readyState' = [readyState EXCEPT ![s] = "OPEN"]
    /\ isRecording' = setIsRecording(TRUE)
    /\ pc' = [pc EXCEPT ![s] = "getUserMedia"]
    /\ stopStreak' = 0
    /\ UNCHANGED <<mounted, socketRef, audioContextRef, nSockets, ctxState, installed, lastRequest>>
    /\ UNCHANGED <<frameVars, inboundVars>>
    /\ UNCHANGED detailVars

\* The connection is closed (by the peer, by a failure to connect, or at the
\* end of a closing handshake started locally): onclose.
oncloseReconnects(s) ==
    /\ readyState[s] \in {"CONNECTING", "OPEN", "CLOSING"}
    /\ nSockets < MaxSockets
    /\ LET st == stopAudio([Cur EXCEPT !.rs = [readyState EXCEPT ![s] = "CLOSED"]])
       IN  /\ audioContextRef' = st.ctxRef
           /\ isRecording' = st.rec
           /\ ctxState' = st.ctx
           /\ readyState' = [st.rs EXCEPT ![nSockets + 1] = "CONNECTING"]
    /\ nSockets' = nSockets + 1
    /\ socketRef' = nSockets + 1
    /\ stopStreak' = 0
    /\ UNCHANGED <<mounted, pc, installed, lastRequest>>
    /\ UNCHANGED <<frameVars, inboundVars>>
    /\ UNCHANGED detailVars

onclose(s) ==
    /\ readyState[s] \in {"CONNECTING", "OPEN", "CLOSING"}
    /\ ApplyStop([Cur EXCEPT !.rs = [readyState EXCEPT ![s] = "CLOSED"]])
    /\ stopStreak' = 0
    /\ UNCHANGED <<mounted, nSockets, pc, installed, lastRequest>>
    /\ UNCHANGED <<frameVars, inboundVars>>
    /\ UNCHANGED detailVars

\* The catch block of onopen.
CatchAudioSetup(s) ==
    /\ consoleErr' = [consoleErr EXCEPT !["Audio setup failed:"] = @ + 1]
    /\ readyState' = IF socketRef # Null
                     THEN [readyState EXCEPT ![socketRef] = WsClose(@)]
                     ELSE readyState
    /\ isRecording' = setIsRecording(FALSE)
    /\ pc' = [pc EXCEPT ![s] = IF @ = "getUserMedia" THEN "failedAcquire"
                                ELSE "failedSetup"]

\* getUserMedia resolves: the AudioContext is created and addModule awaited.
GetUserMediaResolved(s) ==
    /\ pc[s] = "getUserMedia"
    /\ ctxState' = [ctxState EXCEPT ![s] = "running"]
    /\ audioContextRef' = s
    /\ pc' = [pc EXCEPT ![s] = "addModule"]
    /\ stopStreak' = 0
    /\ UNCHANGED <<mounted, isRecording, socketRef, nSockets,
                   readyState, installed, lastRequest>>
    /\ UNCHANGED <<frameVars, inboundVars>>
    /\ UNCHANGED detailVars

\* getUserMedia rejects.
GetUserMediaRejected(s) ==
    /\ pc[s] = "getUserMedia"
    /\ CatchAudioSetup(s)
    /\ stopStreak' = 0
    /\ UNCHANGED <<mounted, socketRef, audioContextRef, nSockets, ctxState, installed,
                   lastRequest>>
    /\ UNCHANGED <<frameVars, received, handled, consoleLog>>
    /\ UNCHANGED detailVars

\* addModule resolves: the worklet node is created (and stored in
\* workletNodeRef, which nothing reads), its port wired to the socket, and the
\* graph connected.
AddModuleResolved(s) ==
    /\ pc[s] = "addModule"
    /\ installed' = [installed EXCEPT ![s] = TRUE]
    /\ pc' = [pc EXCEPT ![s] = "done"]
    /\ stopStreak' = 0
    /\ UNCHANGED <<mounted, isRecording, socketRef, audioContextRef, nSockets,
                   readyState, ctxState,
                   lastRequest>>
    /\ UNCHANGED <<frameVars, inboundVars>>
    /\ UNCHANGED detailVars

\* addModule rejects, or a later statement of the try block throws.
AddModuleRejected(s) ==
    /\ pc[s] = "addModule"
    /\ CatchAudioSetup(s)
    /\ stopStreak' = 0
    /\ UNCHANGED <<mounted, socketRef, audioContextRef, nSockets, ctxState, installed,
                   lastRequest>>
    /\ UNCHANGED <<frameVars, received, handled, consoleLog>>
    /\ UNCHANGED detailVars

\* The AudioContext has finished closing.
ContextClosed(c) ==
    /\ ctxState[c] = "closing"
    /\ ctxState' = [ctxState EXCEPT ![c] = "closed"]
    /\ stopStreak' = 0
    /\ UNCHANGED <<mounted, isRecording, socketRef, audioContextRef,
                   nSockets, readyState, pc, installed, lastRequest>>
    /\ UNCHANGED <<frameVars, inboundVars>>
    /\ UNCHANGED detailVars

\* The getUserMedia stream of session s is live: no statement stops its tracks.
StreamHeld(s) == pc[s] \in {"addModule", "done", "failedSetup"}

\* ---- the producer ----
Frame(c, k) == [ctx |-> c, seq |-> k]

RECURSIVE SumUpTo(_, _)
SumUpTo(f, n) == IF n = 0 THEN 0 ELSE f[n] + SumUpTo(f, n - 1)
TotalEmitted == SumUpTo(emitted, MaxSockets)

\* this.port.postMessage(outputData): one message per call.
postMessageTwice(q, f) == Append(Append(q, f), f)

postMessage(q, f) == Append(q, f)

\* AudioProcessor.process, called by the rendering engine for one quantum of
\* a context whose worklet node is connected; a context that close() was
\* called on may still render until it has finished closing. process always
\* returns true.
process(c, hasInput) ==
    /\ installed[c]
    /\ ctxState[c] \in {"running", "closing"}
    /\ IF hasInput
       THEN /\ TotalEmitted < MaxFrames
            /\ emitted' = [emitted EXCEPT ![c] = @ + 1]
            /\ port' = [port EXCEPT ![c] = postMessage(@, Frame(c, emitted[c] + 1))]
            /\ stopStreak' = 0
       ELSE UNCHANGED <<emitted, port, stopStreak>>
    /\ UNCHANGED <<wire, dropped, sendErrors, lastRequest>>
    /\ UNCHANGED <<sessionVars, inboundVars>>
    /\ UNCHANGED detailVars

\* ---- process, on the sample buffers ----
\* The condition of the if statement: input && input.length > 0.
InputPresentIfDefined(inp) == inp # "undefined"

InputPresent(inp) == inp = "channel0"

\* The samples new Float32Array(input[0]) is built from: those of channel 0,
\* or none when input[0] is undefined.
Channel0(inp, h) == IF inp = "channel0" THEN h[EngineBuffer] ELSE <<>>

\* The buffer behind outputData = new Float32Array(src): a typed array built
\* from a typed array gets a buffer of its own.
Float32ArrayView(src, fresh) == src

newFloat32Array(src, fresh) == fresh

\* One call process(inputs, outputs, parameters) of the rendering engine.
processQuantum(inp) ==
    /\ lastInput' = inp
    /\ procRet' = "true"
    /\ lastOp' = "process"
    /\ IF InputPresent(inp)
       THEN /\ Len(posted) < MaxBlocks
            /\ LET fresh == Len(posted) + 1
                   outputData == newFloat32Array(EngineBuffer, fresh)
               IN  /\ heap' = [heap EXCEPT ![fresh] = Channel0(inp, heap)]
                   /\ posted' = postMessage(posted, outputData)
            /\ expected' = Append(expected, heap[EngineBuffer])
       ELSE UNCHANGED <<heap, posted, expected>>
    /\ UNCHANGED <<sessionVars, frameVars, inboundVars, lastRequest, stopStreak>>
    /\ UNCHANGED decoderVars

\* Between two calls the engine writes the next quantum into its buffer.
EngineFill(b) ==
    /\ b # heap[EngineBuffer]
    /\ heap' = [heap EXCEPT ![EngineBuffer] = b]
    /\ lastOp' = "fill"
    /\ UNCHANGED <<posted, expected, lastInput, procRet>>
    /\ UNCHANGED <<sessionVars, frameVars, inboundVars, lastRequest, stopStreak>>
    /\ UNCHANGED decoderVars

\* The holder of the i-th posted array overwrites its samples.
FrameOverwrite(i, b) ==
    /\ i \in 1..Len(posted)
    /\ b # heap[posted[i]]
    /\ heap' = [heap EXCEPT ![posted[i]] = b]
    /\ expected' = [expected EXCEPT ![i] = b]
    /\ lastOp' = "overwrite"
    /\ UNCHANGED <<posted, lastInput, procRet>>
    /\ UNCHANGED <<sessionVars, frameVars, inboundVars, lastRequest, stopStreak>>
    /\ UNCHANGED decoderVars

\* ---- the hand-off to the socket ----
\* The guard of workletNode.port.onmessage.
ReadyToSendAnyState == socketRef # Null

ReadyToSend == socketRef # Null /\ readyState[socketRef] = "OPEN"

\* workletNode.port.onmessage for the oldest undelivered frame of context c.
\* WebSocket.send transmits on an open socket, throws InvalidStateError on a
\* connecting one and discards the data on a closing or closed one.
PortOnMessage(c) ==
    /\ port[c] # <<>>
    /\ port' = [port EXCEPT ![c] = Tail(@)]
    /\ LET f == Head(port[c]) IN
       IF ReadyToSend
       THEN /\ wire' = IF readyState[socketRef] = "OPEN"
                       THEN Append(wire, [sock |-> socketRef, frame |-> f])
                       ELSE wire
            /\ dropped' = IF readyState[socketRef] = "OPEN"
                          THEN dropped ELSE dropped \cup {f}
            /\ sendErrors' = IF readyState[socketRef] = "CONNECTING"
                             THEN sendErrors + 1 ELSE sendErrors
       ELSE /\ dropped' = dropped \cup {f}
            /\ UNCHANGED <<wire, sendErrors>>
    /\ stopStreak' = 0
    /\ UNCHANGED <<emitted, lastRequest>>
    /\ UNCHANGED <<sessionVars, inboundVars>>
    /\ UNCHANGED detailVars

\* ---- inbound messages ----
\* JSON.parse(event.data) returns a value, or throws SyntaxError.
JSONparseOk(p) == p.kind # "garbage"

\* handleServerEvent(data) throws TypeError when it reads data.type of null.
handleServerEventThrows(p) == p.kind = "null"

\* The console.log calls of handleServerEvent(data).
handleServerEvent(p) ==
    IF p.type = "note_on" THEN (IF p.note THEN <<"Note ON">> ELSE <<>>)
    ELSE IF p.type = "note_off" THEN <<"Note OFF">>
    ELSE IF p.type = "silence_reset" THEN <<"Silence Reset">>
    ELSE <<>>

\* The call handleServerEvent(data) made by socket.onmessage.
DispatchFirst(h, p) == <<p>> \o h

Dispatch(h, p) == Append(h, p)

\* The catch block of socket.onmessage.
CatchParseSilent(errs) == errs

CatchParse(errs) == [errs EXCEPT !["JSON Parse Error"] = @ + 1]

\* socket.onmessage for an inbound message p on socket s.
onmessage(s, p) ==
    /\ readyState[s] = "OPEN"
    /\ Len(received) < MaxMsgs
    /\ received' = Append(received, p)
    /\ IF JSONparseOk(p)
       THEN /\ handled' = Dispatch(handled, p)
            /\ IF handleServerEventThrows(p)
               THEN /\ consoleErr' = CatchParse(consoleErr)
                    /\ UNCHANGED consoleLog
               ELSE /\ consoleLog' = consoleLog \o handleServerEvent(p)
                    /\ UNCHANGED consoleErr
       ELSE /\ consoleErr' = CatchParse(consoleErr)
            /\ UNCHANGED <<handled, consoleLog>>
    /\ stopStreak' = 0
    /\ UNCHANGED lastRequest
    /\ UNCHANGED <<sessionVars, frameVars>>
    /\ UNCHANGED detailVars

\* ---- JSON.parse, on the text ----
Digit(c) ==
    CASE c = "0" -> 0 [] c = "1" -> 1 [] c = "2" -> 2 [] c = "3" -> 3
      [] c = "4" -> 4 [] c = "5" -> 5 [] c = "6" -> 6 [] c = "7" -> 7
      [] c = "8" -> 8 [] c = "9" -> 9

RECURSIVE DigitsValue(_)
DigitsValue(d) ==
    IF d = <<>> THEN 0
    ELSE DigitsValue(SubSeq(d, 1, Len(d) - 1)) * 10 + Digit(d[Len(d)])

\* The number a literal with at most three decimals denotes, in thousandths.
JSONnumber(lit) ==
    LET points == { i \in 1..Len(lit) : lit[i] = "." }
        p == IF points = {} THEN Len(lit) + 1 ELSE CHOOSE i \in points : TRUE
        decimals == SubSeq(lit, p + 1, Len(lit))
        scale == CASE Len(decimals) = 0 -> 1000 [] Len(decimals) = 1 -> 100
                   [] Len(decimals) = 2 -> 10 [] Len(decimals) = 3 -> 1
    IN  DigitsValue(SubSeq(lit, 1, p - 1)) * 1000 + DigitsValue(decimals) * scale

\* A JSON value: t is its JavaScript type ("undefined" for a property the
\* object does not have), s the characters of a string, n a number in
\* thousandths.
Undefined == [t |-> "undefined", s |-> "", n |-> 0]

\* The value of a literal kept as the text it was written with.
JSONvalueAsText(lit) ==
    IF lit = NoField THEN Undefined
    ELSE [t |-> "string", s |-> lit[2], n |-> 0]

JSONvalue(lit) ==
    IF lit = NoField THEN Undefined
    ELSE IF lit[1] = Quote THEN [t |-> "string", s |-> lit[2], n |-> 0]
    ELSE [t |-> "number", s |-> "", n |-> JSONnumber(lit)]

\* JSON.parse of an object: every property of the text, and no other.
JSONparse(x) == [f \in Fields |-> JSONvalue(x[f])]

\* socket.onmessage on the message rxText: the parsed object is passed to
\* handleServerEvent as it is.
DecodeMessage ==
    /\ delivered = <<>>
    /\ delivered' = <<JSONparse(rxText)>>
    /\ UNCHANGED rxText
    /\ UNCHANGED <<sessionVars, frameVars, inboundVars, lastRequest, stopStreak>>
    /\ UNCHANGED producerVars

\* ---- specifications ----
\* The actions of the controller: the button, the cleanup and the callbacks of
\* the sockets, of getUserMedia, of addModule and of the audio contexts.
NextControl(limit) ==
    \/ startStreaming(limit)
    \/ StopClick
    \/ Unmount
    \/ \E s \in Sockets : onopen(s)
    \/ \E s \in Sockets : onclose(s)
    \/ \E s \in Sockets : GetUserMediaResolved(s)
    \/ \E s \in Sockets : GetUserMediaRejected(s)
    \/ \E s \in Sockets : AddModuleResolved(s)
    \/ \E s \in Sockets : AddModuleRejected(s)
    \/ \E c \in Sockets : ContextClosed(c)

\* The audio path: the producer and the hand-off of its frames to the socket.
NextFrames ==
    \/ \E c \in Sockets, hasInput \in BOOLEAN : process(c, hasInput)
    \/ \E c \in Sockets : PortOnMessage(c)

\* The event path: the messages of the server.
NextMessages ==
    \E s \in Sockets, p \in Payloads : onmessage(s, p)

Next ==
    \/ NextControl(MaxSockets)
    \/ NextFrames
    \/ NextMessages

Spec == Init /\ [][Next]_vars

\* The audio path writes only emitted, port, wire, dropped and sendErrors, and
\* the event path only received, handled, consoleErr and consoleLog; neither
\* writes a variable the controller or the other path reads. The three
\* specifications below are the projections of Spec the claims are checked on;
\* the event path, whose handlers read nothing of the controller but the
\* socket's readyState, is checked with MaxInboundSockets connections.
SpecControl == Init /\ [][NextControl(MaxSockets)]_vars

SpecOutbound == Init /\ [][NextControl(MaxSockets) \/ NextFrames]_vars

SpecInbound == Init /\ [][NextControl(MaxInboundSockets) \/ NextMessages]_vars

\* process on its own: the calls of the rendering engine, the engine's
\* writes to its input buffer, and writes to the arrays already posted, from
\* every initial content of the engine's buffer.
InitProducer ==
    /\ InitController
    /\ \E b \in Blocks : InitWorklet(b)
    /\ InitMessage(EmptyText)

NextProducer ==
    \/ \E inp \in InputKinds : processQuantum(inp)
    \/ \E b \in Blocks : EngineFill(b)
    \/ \E i \in 1..MaxBlocks, b \in Blocks : FrameOverwrite(i, b)

SpecProducer == InitProducer /\ [][NextProducer]_vars

\* socket.onmessage on one message, from every text of Texts.
InitDecoder ==
    /\ InitController
    /\ InitWorklet([k \in 1..Quantum |-> 0])
    /\ \E x \in Texts : InitMessage(x)

SpecDecoder == InitDecoder /\ [][DecodeMessage]_vars

\* ---- vocabulary of the claims ----
Range(q) == { q[i] : i \in 1..Len(q) }

\* Session s is Streaming: its connection is the controller's, it is open, and
\* its own producer is installed in a running context.
Streaming(s) ==
    /\ isRecording
    /\ socketRef = s
    /\ readyState[s] = "OPEN"
    /\ installed[s]
    /\ ctxState[s] = "running"

AliveSockets == { s \in Sockets : readyState[s] \in {"CONNECTING", "OPEN"} }
AliveProducers == { c \in Sockets : installed[c] /\ ctxState[c] = "running" }

\* No callback is pending: no socket event, no await of onopen, no context
\* still closing, no frame in flight.
Quiescent ==
    /\ \A s \in Sockets : readyState[s] \notin {"CONNECTING", "CLOSING"}
    /\ \A s \in Sockets : pc[s] \notin {"getUserMedia", "addModule"}
    /\ \A c \in Sockets : ctxState[c] # "closing"
    /\ \A c \in Sockets : port[c] = <<>>

\* ---- C1: one producer and one connection at a time ----
\* C1: at most one transport connection and at most one audio frame producer
\* are alive at once; a start request made while a connection is being opened
\* or a device acquired creates no second connection or producer.
C1_SingleSession ==
    /\ Cardinality(AliveSockets) <= 1
    /\ Cardinality(AliveProducers) <= 1

\* ---- C2: remote close while Streaming ----
\* C2: when the connection of a Streaming session is closed by the peer, the
\* controller is Idle after the close has been handled, the rendering context
\* of the session is released, and no frame is transmitted on the closed
\* connection afterwards.
C2_RemoteCloseReleases ==
    [][ \A s \in Sockets :
          /\ (Streaming(s) /\ readyState'[s] = "CLOSED")
                => /\ ~isRecording'
                   /\ socketRef' = Null
                   /\ ctxState'[s] # "running"
          /\ (readyState[s] = "CLOSED")
                => /\ wire' = wire \/ wire'[Len(wire')].sock # s ]_vars

\* ---- C3: a frame handed off while the connection is not ready ----
\* C3: a frame handed off while the controller's connection is not open is
\* not transmitted, raises no error, and is never transmitted later: it is
\* in no queue and in no message of the wire.
C3_NotReadyDropsFrame ==
    /\ sendErrors = 0
    /\ \A f \in dropped :
          /\ \A i \in 1..Len(wire) : wire[i].frame # f
          /\ \A c \in Sockets : f \notin Range(port[c])

\* A frame was dropped and a later frame of the same producer was transmitted
\* once a connection was ready.
C3_Witness ==
    \E f \in dropped : \E i \in 1..Len(wire) :
        /\ wire[i].frame.ctx = f.ctx
        /\ wire[i].frame.seq > f.seq

\* ---- C4: transmitted frames are a subsequence of the emitted ones ----
\* C4: every transmitted message carries exactly one frame its producer has
\* emitted, no frame is transmitted twice, and the frames of a producer are
\* transmitted in the order the producer emitted them.
C4_WireInEmissionOrder ==
    /\ \A i \in 1..Len(wire) :
          /\ wire[i].frame.ctx \in Sockets
          /\ wire[i].frame.seq \in 1..emitted[wire[i].frame.ctx]
    /\ \A i, j \in 1..Len(wire) :
          (i < j /\ wire[i].frame.ctx = wire[j].frame.ctx)
              => wire[i].frame.seq < wire[j].frame.seq

\* Two frames of one producer were transmitted on one connection.
C4_Witness ==
    \E i, j \in 1..Len(wire) :
        /\ i < j
        /\ wire[i].sock = wire[j].sock
        /\ wire[i].frame.ctx = wire[j].frame.ctx

\* ---- C5: one handler call per decoded message, in arrival order ----
\* C5: the calls of the event handler are exactly the successfully decoded
\* inbound messages, one call each, in the order the messages arrived; a
\* message that fails to decode causes no call.
C5_HandledInArrivalOrder ==
    handled = SelectSeq(received, JSONparseOk)

\* Two different messages were decoded and handled.
C5_Witness ==
    /\ Len(handled) = 2
    /\ handled[1] # handled[2]

\* ---- C6: a malformed message is reported and changes nothing ----
\* C6: an inbound message that does not parse is reported on the error
\* channel, calls no handler and leaves the session as it was (connection,
\* recording flag, rendering context); a message that arrives after a
\* malformed one is processed as usual.
C6_MalformedIsIsolated ==
    [][ (received' # received) =>
          LET p == received'[Len(received')] IN
          /\ ~JSONparseOk(p) =>
                /\ consoleErr'["JSON Parse Error"] = consoleErr["JSON Parse Error"] + 1
                /\ handled' = handled
                /\ UNCHANGED sessionVars
          /\ (JSONparseOk(p) /\ \E i \in 1..Len(received) : ~JSONparseOk(received[i]))
                => handled' = Append(handled, p) ]_vars

\* A malformed message arrived on a Streaming session, was reported, the
\* session is still Streaming and the next message was handled.
C6_Witness ==
    /\ Len(received) = 2
    /\ ~JSONparseOk(received[1])
    /\ handled = <<received[2]>>
    /\ consoleErr["JSON Parse Error"] = 1
    /\ \E s \in Sockets : Streaming(s)

\* ---- C7: unknown or absent type ----
\* C7: a well-formed inbound payload whose type is absent or is none of the
\* five tags is never handed to the handler as an event, and each such
\* payload produces an observable signal.
UnknownType(p) == p.kind # "garbage" /\ p.type \notin Tags

C7_UnknownTypeRejected ==
    [][ (received' # received /\ UnknownType(received'[Len(received')])) =>
          /\ handled' = handled
          /\ consoleErr' # consoleErr \/ consoleLog' # consoleLog ]_vars

\* ---- C8: the teardown is idempotent ----
\* C8: in every reachable state, running the teardown twice leaves the same
\* connection reference, context reference, recording flag and object states
\* as running it once, and the second run makes no close() call; a stop
\* request that directly follows a stop request changes none of them.
C8_CloseIdempotent ==
    /\ [](LET once == stopAudio(Cur)
              twice == stopAudio(once)
          IN  /\ twice.ctxRef = once.ctxRef
              /\ twice.sockRef = once.sockRef
              /\ twice.rec = once.rec
              /\ twice.ctx = once.ctx
              /\ twice.rs = once.rs
              /\ twice.closes = once.closes)
    /\ [][ stopStreak' = 2 =>
             UNCHANGED <<audioContextRef, socketRef, isRecording, ctxState,
                         readyState>> ]_vars

\* The teardown ran twice in succession, and the first run had a context and
\* a connection to close.
C8_Witness ==
    /\ stopStreak = 2
    /\ \E c \in Sockets : ctxState[c] = "closing"
    /\ \E s \in Sockets : readyState[s] = "CLOSING"

\* ---- C9: a stop request releases everything ----
\* C9: after a stop request (button or unmount), made in any state of the
\* session, once every pending callback has run the controller is Idle and
\* the session the request stopped holds no running audio context and no
\* open socket.
C9_StopReleasesAll ==
    (lastRequest = "stop" /\ Quiescent) =>
        /\ ~isRecording
        /\ \A s \in Sockets :
              s = nSockets => ctxState[s] # "running" /\ readyState[s] # "OPEN"

\* ---- C10: restart from Idle ----
\* C10: a start request made after the earlier runs have returned to Idle
\* creates a connection and, later, a rendering context that were never used
\* before, and the session it starts is Streaming once its connection has
\* opened and its device acquisition has completed, no stop request having
\* been made and its connection not having been closed by the peer.
C10_RestartReachesStreaming ==
    [][ \A s \in Sockets :
          /\ (nSockets' = s /\ nSockets # s)
                => /\ readyState[s] = "NONE" /\ socketRef' = s
                   /\ ctxState[s] = "none" /\ pc[s] = "idle"
          /\ (pc[s] = "getUserMedia" /\ pc'[s] = "addModule")
                => ctxState[s] = "none" /\ audioContextRef' = s
          /\ ( /\ pc[s] = "addModule" /\ pc'[s] = "done"
               /\ lastRequest = "start" /\ nSockets = s
               /\ readyState[s] \in {"OPEN", "CLOSING"} )
                => Streaming(s)' ]_vars

\* ---- C11: device acquisition fails ----
\* C11: when the device acquisition of a session failed (getUserMedia
\* rejected, or the producer could not be installed), then once every pending
\* callback has run the controller is Idle, the failure was reported, the
\* connection of that session is not open and the audio context of that
\* session is not running. Stated for the session of the last start request,
\* made while nothing was alive and followed by no stop request.
C11_AcquisitionFailureReleases ==
    \A s \in Sockets :
        ( /\ pc[s] \in {"failedAcquire", "failedSetup"}
          /\ lastRequest = "start" /\ nSockets = s
          /\ Quiescent )
            => /\ ~isRecording
               /\ consoleErr["Audio setup failed:"] >= 1
               /\ readyState[s] = "CLOSED"
               /\ ctxState[s] # "running"

C13_AcquireBeforeConnect ==
    \A s \in Sockets :
        readyState[s] # "NONE" => (ctxState[s] = "running" /\ installed[s])

\* C13 as amended: the controller connects first and acquires the device only
\* once the connection has opened. The microphone is requested by the open
\* event of the run's connection and not before; the audio context of a run
\* exists only once its microphone request was granted, and the producer is
\* installed only in a context so created.
C13_ConnectBeforeAcquire ==
    \A s \in Sockets :
        /\ pc[s] # "idle" => readyState[s] \in {"OPEN", "CLOSING", "CLOSED"}
        /\ ctxState[s] # "none" => pc[s] \in {"addModule", "done", "failedSetup"}
        /\ installed[s] => (pc[s] = "done" /\ ctxState[s] # "none")

\* A run whose connection opened first has since been granted the microphone
\* and has its producer installed, the connection still being open.
C13_Witness ==
    \E s \in Sockets :
        /\ readyState[s] = "OPEN"
        /\ pc[s] = "done"
        /\ installed[s] /\ ctxState[s] = "running"

\* ---- C14: process keeps running and emits one frame per input block ----
\* C14: every call of process returns true; a call whose input has a channel
\* posts exactly one message, and a call whose input is undefined or has no
\* channel posts none.
C14_ContinueAndOneFrame ==
    [][ lastOp' = "process" =>
          /\ procRet' = "true"
          /\ lastInput' = "channel0" => Len(posted') = Len(posted) + 1
          /\ lastInput' # "channel0" => posted' = posted ]_vars

\* A call without input followed a call that posted a frame, and returned
\* true as well.
C14_Witness ==
    /\ lastOp = "process"
    /\ lastInput \in {"undefined", "empty"}
    /\ Len(posted) >= 1
    /\ procRet = "true"

\* ---- C15: a frame is a copy of channel 0 ----
\* C15: every posted array has the quantum length and the samples channel 0
\* held when it was posted, whatever the engine has since written to its
\* buffer and whatever was written to the other posted arrays: each posted
\* array has a buffer of its own.
C15_FrameIsDefensiveCopy ==
    \A i \in 1..Len(posted) :
        /\ Len(heap[posted[i]]) = Quantum
        /\ heap[posted[i]] = expected[i]
        /\ posted[i] # EngineBuffer
        /\ \A j \in 1..Len(posted) : i # j => posted[i] # posted[j]

\* Two frames with different samples were posted, the second was overwritten
\* by its holder, and the engine has since refilled its buffer with samples
\* that differ from both.
C15_Witness ==
    /\ Len(posted) = 2
    /\ lastOp = "fill"
    /\ heap[posted[1]] # heap[posted[2]]
    /\ heap[EngineBuffer] # heap[posted[1]]
    /\ heap[EngineBuffer] # heap[posted[2]]

\* ---- C16: the fields of a valid payload are preserved ----
\* The numbers the number literals of the payloads denote, in thousandths.
Denotes ==
    [f \in {"midi", "value", "duration", "start_time"} |->
        IF f = "midi" THEN 69000
        ELSE IF f = "value" THEN 420
        ELSE IF f = "duration" THEN 300
        ELSE 12500]

\* C16: for a payload whose type is one of the five tags, the object handed
\* to the handler has that tag as its type, has every field of the payload
\* with the payload's value, and has start_time, duration, value and midi as
\* numbers.
C16_FieldsPreserved ==
    \A i \in 1..Len(delivered) :
        LET e == delivered[i] IN
        /\ e["type"].t = "string"
        /\ e["type"].s \in Tags
        /\ rxText["type"] = StringLiteral(e["type"].s)
        /\ rxText["note"] # NoField
              => e["note"].t = "string" /\ e["note"].s = "A4"
        /\ \A f \in DOMAIN Denotes :
              rxText[f] # NoField
                  => e[f].t = "number" /\ e[f].n = Denotes[f]

\* A note_off payload with note, start_time and duration was delivered.
C16_Witness ==
    /\ Len(delivered) = 1
    /\ delivered[1]["type"].s = "note_off"
    /\ delivered[1]["note"].s = "A4"
    /\ delivered[1]["start_time"].n = 12500
    /\ delivered[1]["duration"].n = 300

\* ---- C17: only the fields of the variant are delivered ----
\* The fields each variant defines, beside type.
VariantFields ==
    [tag \in Tags |->
        IF tag = "note_on" THEN {"note", "midi", "start_time"}
        ELSE IF tag = "note_off" THEN {"note", "start_time", "duration"}
        ELSE IF tag = "re_trigger" THEN {"note", "start_time"}
        ELSE IF tag = "volume" THEN {"value"}
        ELSE {}]

\* C17: the object handed to the handler has no field beside type and the
\* fields of its variant: a field of the payload that the variant does not
\* define is not in it.
C17_OnlyVariantFields ==
    \A i \in 1..Len(delivered) :
        LET e == delivered[i] IN
        \A f \in Fields \ ({"type"} \cup VariantFields[e["type"].s]) :
            e[f].t = "undefined"

\* ---- C18: a frame stays on the connection of its own session ----
\* C18: every transmitted message was sent on the connection of the session
\* whose producer emitted its frame: no frame of the producer of session c is
\* on the wire of another connection. Stated for the states whose last
\* request is a start request made while no connection was alive.
C18_FrameOnOwnConnection ==
    lastRequest = "start" =>
        \A i \in 1..Len(wire) : wire[i].sock = wire[i].frame.ctx

\* ---- C19: closing the connection releases the microphone ----
\* C19: once the close of a connection has been handled, whoever closed it,
\* the capture stream of that session is no longer held.
C19_ClosureReleasesStream ==
    [][ \A s \in Sockets :
          (readyState[s] # "CLOSED" /\ readyState'[s] = "CLOSED")
              => ~StreamHeld(s)' ]_vars

\* ---- C20: the callbacks of an earlier connection ----
\* C20: a close event, an open event or a device acquisition failure of a
\* connection s that is no longer the controller's leaves a later session t
\* alone: it changes neither the state of t's connection, nor the state of
\* t's audio context, nor the recording flag while t is the current session.
\* Stated for a session t started while no connection was alive and not
\* stopped since.
C20_StaleCallbacksIsolated ==
    [][ \A s, t \in Sockets :
          ( /\ s < t /\ t = nSockets /\ lastRequest = "start"
            /\ \/ readyState[s] # "CLOSED" /\ readyState'[s] = "CLOSED"
               \/ readyState[s] = "CONNECTING" /\ readyState'[s] = "OPEN"
               \/ /\ pc[s] \notin {"failedAcquire", "failedSetup"}
                  /\ pc'[s] \in {"failedAcquire", "failedSetup"} )
              => /\ readyState'[t] = readyState[t]
                 /\ ctxState'[t] = ctxState[t]
                 /\ socketRef = t => isRecording' = isRecording ]_vars

====
